---- MODULE Spec2Model ----
(***************************************************************************)
(* Model of src/src/use-slot-fill.tsx: createFill (the Tagger), useSlots   *)
(* (the Classifier, a useMemo around one classification pass) and          *)
(* SlotManager (the Registry).                                             *)
(*                                                                         *)
(* A ReactNode is a record [kind, type, text, children, ref]:              *)
(*   kind "undefined"  no children were passed / props.children is unset   *)
(*   kind "text"       a string child, its value in text                   *)
(*   kind "element"    a React element; type is its component type and     *)
(*                     children is <<props.children>>                      *)
(*   kind "array"      an array of nodes, its items in children            *)
(* ref is the identity of an object (array, element): two arrays with the  *)
(* same items and different ref are distinct objects with equal content.   *)
(* Nodes are immutable, as React's are, so identity determines content.    *)
(* The children given to useSlots are undefined, one unit, or a flat array *)
(* of units; a unit is a text, a plain element or a Fill element.          *)
(***************************************************************************)
EXTENDS Integers, Sequences, FiniteSets, TLC

VARIABLES
    hooks,      \* call site -> the useMemo cell of that site (React hook state)
    heap,       \* SlotMap objects created so far: object id -> own properties
    managers,   \* SlotManager instances: id -> [slots |-> the private Set]
    ctorArgs,   \* history: the array each SlotManager was constructed with
    nextFill,   \* number of Fill components created so far (function identities)
    props,      \* the children the component of SpecClassify is mounted with
    calls,      \* history: call site -> the previous useSlots call made there
    last,       \* history: the last operation, its arguments and its outcome
    returned    \* history: the SlotMap objects returned by the calls before the last

vars == <<hooks, heap, managers, ctorArgs, nextFill, props, calls, last, returned>>

\* ------------------------------------------------------------------ bounds

MaxLen == 3         \* longest children array classified in SpecClassify
MaxSlotMaps == 3    \* classification passes (SlotMap objects) per behaviour
MaxFills == 2       \* Fill components created through a SlotManager

\* ------------------------------------------------------------------ nodes

NoType == [typeof |-> "none", hasMarker |-> FALSE, __SLOT_FILL__ |-> "", id |-> 0]
HostDiv == [typeof |-> "string", hasMarker |-> FALSE, __SLOT_FILL__ |-> "", id |-> 0]
PlainComponent == [typeof |-> "function", hasMarker |-> FALSE, __SLOT_FILL__ |-> "", id |-> 0]

Undefined == [kind |-> "undefined", type |-> NoType, text |-> "", children |-> <<>>, ref |-> 0]
Text(s) == [kind |-> "text", type |-> NoType, text |-> s, children |-> <<>>, ref |-> 0]
Element(type, propsChildren) ==
    [kind |-> "element", type |-> type, text |-> "", children |-> <<propsChildren>>, ref |-> 0]
Arr(items, ref) == [kind |-> "array", type |-> NoType, text |-> "", children |-> items, ref |-> ref]
\* A property found on Object.prototype, as read through an object that
\* does not define it itself.
Inherited(key) == [kind |-> "builtin", type |-> NoType, text |-> key, children |-> <<>>, ref |-> 0]

\* createFill(slotName): a new function component carrying the marker.  id is
\* the identity of the function object the call creates.
createFill(slotName, id) ==
    [typeof |-> "function", hasMarker |-> TRUE, __SLOT_FILL__ |-> slotName, id |-> id]

\* ------------------------------------------------------- JavaScript objects

\* Own properties of an object literal {} : none.
EmptyObject == [k \in {} |-> Undefined]

\* The properties every object literal inherits from Object.prototype.
ObjectPrototypeKeys ==
    {"constructor", "toString", "toLocaleString", "valueOf", "hasOwnProperty",
     "isPrototypeOf", "propertyIsEnumerable", "__proto__", "__defineGetter__",
     "__defineSetter__", "__lookupGetter__", "__lookupSetter__"}

\* key in obj: own or inherited.
In(key, obj) == key \in DOMAIN obj \/ key \in ObjectPrototypeKeys

\* obj[key] = value on an object where key is absent or an own property.
Put(obj, key, value) ==
    [k \in DOMAIN obj \cup {key} |-> IF k = key THEN value ELSE obj[k]]

\* obj[key] as a caller reads it.
Get(obj, key) ==
    IF key \in DOMAIN obj THEN obj[key]
    ELSE IF key \in ObjectPrototypeKeys THEN Inherited(key)
    ELSE Undefined

\* ---------------------------------------------------------- React.Children

\* The nodes Children.forEach passes to its callback, in order.
ChildrenList(children) ==
    IF children.kind = "undefined" THEN <<>>
    ELSE IF children.kind = "array" THEN children.children
    ELSE <<children>>

ChildrenCount(children) == Len(ChildrenList(children))

isValidElement(child) == child.kind = "element"

\* ------------------------------------------------------------ classification

\* The test of lines 77-81, negated: child is an element of a Fill component.
\* (IsFillKnownComponent: the element's type compared with one known Fill
\* component instead of probed for the marker.)
IsFillKnownComponent(child) ==
    /\ isValidElement(child)
    /\ child.type.typeof = "function"
    /\ child.type.hasMarker
    /\ child.type.id = 1
IsFill(child) ==
    /\ isValidElement(child)
    /\ child.type.typeof = "function"
    /\ child.type.hasMarker

\* One call of the forEach callback on acc = [rest, slots].  (VisitFillsToRest:
\* the same with a later Fill of a filled slot pushed to rest; VisitNested:
\* the same, descending into a child whose content is a Fill element.)
VisitNested(acc, child) ==
    LET top == IF ~IsFill(child) THEN [acc EXCEPT !.rest = Append(@, child)]
               ELSE IF In(child.type.__SLOT_FILL__, acc.slots) THEN acc
               ELSE [acc EXCEPT !.slots =
                        Put(@, child.type.__SLOT_FILL__, child.children[1])]
        inner == IF isValidElement(child) THEN child.children[1] ELSE child
    IN  IF isValidElement(child) /\ IsFill(inner)
           /\ ~In(inner.type.__SLOT_FILL__, top.slots)
        THEN [top EXCEPT !.slots = Put(@, inner.type.__SLOT_FILL__, inner.children[1])]
        ELSE top
VisitFillsToRest(acc, child) ==
    IF ~IsFill(child) THEN [acc EXCEPT !.rest = Append(@, child)]
    ELSE IF In(child.type.__SLOT_FILL__, acc.slots) THEN [acc EXCEPT !.rest = Append(@, child)]
    ELSE [acc EXCEPT !.slots = Put(@, child.type.__SLOT_FILL__, child.children[1])]
Visit(acc, child) ==
    IF ~IsFill(child) THEN [acc EXCEPT !.rest = Append(@, child)]
    ELSE IF In(child.type.__SLOT_FILL__, acc.slots) THEN acc
    ELSE [acc EXCEPT !.slots = Put(@, child.type.__SLOT_FILL__, child.children[1])]

RECURSIVE ForEach(_, _, _)
ForEach(list, i, acc) ==
    IF i > Len(list) THEN acc
    ELSE ForEach(list, i + 1, Visit(acc, list[i]))

\* The callback of useMemo: one classification pass over children.
\* (ClassifyKeepsFilledRest: rest is set only when no unit has filled it.)
ClassifyKeepsFilledRest(children) ==
    IF ChildrenCount(children) = 0 THEN EmptyObject
    ELSE LET acc == ForEach(ChildrenList(children), 1,
                            [rest |-> <<>>, slots |-> EmptyObject])
         IN  IF In("rest", acc.slots) THEN acc.slots
             ELSE Put(acc.slots, "rest", Arr(acc.rest, 0))
Classify(children) ==
    IF ChildrenCount(children) = 0 THEN EmptyObject
    ELSE LET acc == ForEach(ChildrenList(children), 1,
                            [rest |-> <<>>, slots |-> EmptyObject])
         IN  Put(acc.slots, "rest", Arr(acc.rest, 0))

\* ------------------------------------------------------------------ useMemo

Unmounted == [mounted |-> FALSE, deps |-> Undefined, value |-> 0]

\* Object.is on two nodes: the same primitive, or the same object.
ObjectIs(a, b) == a = b

\* React's comparison of the dependency array [children] with the one stored
\* by the previous render of the same call site.  (DepsIgnored: the hook
\* written with an empty dependency array; DepsNeverEqual: no memoization.)
DepsIgnored(cell, children) == cell.mounted
DepsNeverEqual(cell, children) == FALSE
areHookInputsEqual(cell, children) == cell.mounted /\ ObjectIs(cell.deps, children)

NoCall == [called |-> FALSE, children |-> Undefined, ret |-> 0]

NoLast ==
    [op |-> "none", site |-> "", manager |-> 0, children |-> Undefined,
     slotName |-> "", ret |-> 0, prev |-> NoCall, threw |-> FALSE,
     message |-> <<>>, fill |-> NoType]

\* The SlotMap objects returned up to and including the last call.
ReturnedSoFar == returned \cup (IF last.op = "useSlots" THEN {last.ret} ELSE {})

\* useSlots(children) called at the hook position `site` of a component;
\* caller is 0 for a direct call and m for a call through SlotManager m.
useSlots(site, children, caller) ==
    LET cell == hooks[site]
        hit == areHookInputsEqual(cell, children)
        fresh == Len(heap) + 1
    IN  /\ hit \/ Len(heap) < MaxSlotMaps
        /\ heap' = IF hit THEN heap ELSE Append(heap, Classify(children))
        /\ hooks' = IF hit THEN hooks
                    ELSE [hooks EXCEPT ![site] =
                            [mounted |-> TRUE, deps |-> children, value |-> fresh]]
        /\ last' = [NoLast EXCEPT !.op = "useSlots", !.site = site,
                                  !.manager = caller, !.children = children,
                                  !.ret = IF hit THEN cell.value ELSE fresh,
                                  !.prev = calls[site]]
        /\ calls' = [calls EXCEPT ![site] =
                        [called |-> TRUE, children |-> children,
                         ret |-> IF hit THEN cell.value ELSE fresh]]
        /\ returned' = ReturnedSoFar
        /\ UNCHANGED <<managers, ctorArgs, nextFill, props>>

\* A component calls the exported useSlots directly.
Render(site, children) == useSlots(site, children, 0)

\* -------------------------------------------------------------- SlotManager

ManagerIds == {1, 2}

\* new Set(slots)
SetOf(slots) == {slots[i] : i \in DOMAIN slots}

\* new SlotManager(slots)
Construct(slots) ==
    /\ Len(managers) + 1 \in ManagerIds
    /\ managers' = Append(managers, [slots |-> SetOf(slots)])
    /\ ctorArgs' = Append(ctorArgs, slots)
    /\ last' = [NoLast EXCEPT !.op = "new", !.manager = Len(managers) + 1]
    /\ returned' = ReturnedSoFar
    /\ UNCHANGED <<hooks, heap, nextFill, props, calls>>

\* The message of the Error thrown by SlotManager.createFill, as the pieces
\* of its template string.
ErrorMessage(slotName) == <<"Slot \"", slotName, "\" does not exist">>

\* manager.createFill(slotName).  (ManagerCreateFillRegisters: the name is
\* added to the set instead of being rejected; ManagerCreateFillUnchecked: the
\* membership test is left out.)
ManagerCreateFillRegisters(m, slotName) ==
    /\ m \in DOMAIN managers
    /\ nextFill < MaxFills
    /\ nextFill' = nextFill + 1
    /\ managers' = [managers EXCEPT ![m].slots = @ \cup {slotName}]
    /\ last' = [NoLast EXCEPT !.op = "createFill", !.manager = m,
                              !.slotName = slotName,
                              !.fill = createFill(slotName, nextFill + 1)]
    /\ returned' = ReturnedSoFar
    /\ UNCHANGED <<hooks, heap, ctorArgs, props, calls>>
ManagerCreateFillUnchecked(m, slotName) ==
    /\ m \in DOMAIN managers
    /\ nextFill < MaxFills
    /\ nextFill' = nextFill + 1
    /\ last' = [NoLast EXCEPT !.op = "createFill", !.manager = m,
                              !.slotName = slotName,
                              !.fill = createFill(slotName, nextFill + 1)]
    /\ returned' = ReturnedSoFar
    /\ UNCHANGED <<hooks, heap, managers, ctorArgs, props, calls>>
ManagerCreateFill(m, slotName) ==
    /\ m \in DOMAIN managers
    /\ IF slotName \notin managers[m].slots
       THEN /\ last' = [NoLast EXCEPT !.op = "createFill", !.manager = m,
                                      !.slotName = slotName, !.threw = TRUE,
                                      !.message = ErrorMessage(slotName)]
            /\ UNCHANGED nextFill
       ELSE /\ nextFill < MaxFills
            /\ nextFill' = nextFill + 1
            /\ last' = [NoLast EXCEPT !.op = "createFill", !.manager = m,
                                      !.slotName = slotName,
                                      !.fill = createFill(slotName, nextFill + 1)]
    /\ returned' = ReturnedSoFar
    /\ UNCHANGED <<hooks, heap, managers, ctorArgs, props, calls>>

\* The SlotMap restricted to the manager's own slots and rest.
FilterSlots(slotMap, permitted) ==
    [k \in DOMAIN slotMap \cap (permitted \cup {"rest"}) |-> slotMap[k]]

\* manager.useSlots(children).  (ManagerUseSlotsFiltered: the result is cut
\* down to the manager's own slots.)
ManagerUseSlotsFiltered(m, site, children) ==
    LET cell == hooks[site]
        hit == areHookInputsEqual(cell, children)
        fresh == Len(heap) + 1
    IN  /\ m \in DOMAIN managers
        /\ hit \/ Len(heap) < MaxSlotMaps
        /\ heap' = IF hit THEN heap
                   ELSE Append(heap, FilterSlots(Classify(children), managers[m].slots))
        /\ hooks' = IF hit THEN hooks
                    ELSE [hooks EXCEPT ![site] =
                            [mounted |-> TRUE, deps |-> children, value |-> fresh]]
        /\ last' = [NoLast EXCEPT !.op = "useSlots", !.site = site,
                                  !.manager = m, !.children = children,
                                  !.ret = IF hit THEN cell.value ELSE fresh,
                                  !.prev = calls[site]]
        /\ calls' = [calls EXCEPT ![site] =
                        [called |-> TRUE, children |-> children,
                         ret |-> IF hit THEN cell.value ELSE fresh]]
        /\ returned' = ReturnedSoFar
        /\ UNCHANGED <<managers, ctorArgs, nextFill, props>>
ManagerUseSlots(m, site, children) ==
    /\ m \in DOMAIN managers
    /\ useSlots(site, children, m)

\* ------------------------------------------------------------------- inputs

SlotNames == {"header", "footer", "rest", "constructor"}
Sites == {"Layout", "Card"}

Contents == {Undefined, Text("A"), Text("B")}
PlainUnits ==
    {Text("x"), Text("z"), Element(HostDiv, Undefined), Element(PlainComponent, Text("A"))}
FillUnits == {Element(createFill(s, 1), c) : s \in SlotNames, c \in Contents}
Units == PlainUnits \cup FillUnits

\* Everything a component may receive as children besides an array: nothing,
\* or one unit.
SingleInputs == {Undefined} \cup Units

\* Children for the renders of SpecMemo: arrays with equal items and
\* different identity, arrays with different items, and no children.
MemoItems ==
    {<<>>, <<Text("x")>>,
     <<Element(createFill("header", 1), Text("A")), Text("x")>>}
MemoInputs == {Undefined} \cup {Arr(q, r) : q \in MemoItems, r \in {1, 2}}

\* Children for the renders of Spec, some with Fills of slots that no
\* SlotManager of the model permits.
SmallInputs ==
    {Undefined,
     Arr(<<Element(createFill("header", 1), Text("A")), Text("x"),
           Element(createFill("footer", 1), Text("B"))>>, 1),
     Arr(<<Element(createFill("body", 1), Text("A")),
           Element(createFill("body", 1), Text("B")),
           Element(createFill("rest", 1), Text("B"))>>, 1)}

ManagerNames == {"header", "footer"}
CtorArrays == {<<"header">>, <<"footer">>, <<"header", "footer", "header">>}
FillNames == ManagerNames \cup {"body"}

\* ----------------------------------------------------------- specifications

Init ==
    /\ hooks = [s \in Sites |-> Unmounted]
    /\ heap = <<>>
    /\ managers = <<>>
    /\ ctorArgs = <<>>
    /\ nextFill = 0
    /\ props = Undefined
    /\ calls = [s \in Sites |-> NoCall]
    /\ last = NoLast
    /\ returned = {}

\* SlotManager instances, the Fills they create and the components that
\* classify through them.
Next ==
    \/ \E slots \in CtorArrays : Construct(slots)
    \/ \E m \in ManagerIds, slotName \in FillNames : ManagerCreateFill(m, slotName)
    \/ \E m \in ManagerIds, children \in SmallInputs : ManagerUseSlots(m, "Card", children)

Spec == Init /\ [][Next]_vars

\* One render of one component, mounted with any children up to MaxLen.
InitClassify ==
    /\ hooks = [s \in Sites |-> Unmounted]
    /\ heap = <<>>
    /\ managers = <<>>
    /\ ctorArgs = <<>>
    /\ nextFill = 0
    /\ \/ props \in SingleInputs
       \/ \E n \in 0..MaxLen : \E items \in [1..n -> Units] : props = Arr(items, 1)
    /\ calls = [s \in Sites |-> NoCall]
    /\ last = NoLast
    /\ returned = {}

RenderProps == Len(heap) = 0 /\ Render("Layout", props)

SpecClassify == InitClassify /\ [][RenderProps]_vars

\* Children built with two Fill components per slot name, each made by its
\* own createFill call.
TaggerNames == {"header", "footer", "constructor"}
TaggerIds == {1, 2}
TaggerUnits ==
    {Text("x")} \cup
    {Element(createFill(s, id), c) :
        s \in TaggerNames, id \in TaggerIds, c \in {Text("A"), Text("B")}}

\* One render of one component whose children come from several taggers.
InitTaggers ==
    /\ hooks = [s \in Sites |-> Unmounted]
    /\ heap = <<>>
    /\ managers = <<>>
    /\ ctorArgs = <<>>
    /\ nextFill = 0
    /\ \/ props \in TaggerUnits
       \/ \E n \in 0..MaxLen : \E items \in [1..n -> TaggerUnits] : props = Arr(items, 1)
    /\ calls = [s \in Sites |-> NoCall]
    /\ last = NoLast
    /\ returned = {}

SpecTaggers == InitTaggers /\ [][RenderProps]_vars

\* Children whose units carry Fill elements inside their own content: a
\* nested Fill element, alone or in an array, inside a host element, a plain
\* component or a Fill element.
NestedNames == {"header", "footer"}
NestedFill(s) == Element(createFill(s, 1), Text("N"))
NestedContents ==
    {Text("A")} \cup
    {NestedFill(s) : s \in NestedNames} \cup
    {Arr(<<Text("A"), NestedFill(s)>>, 0) : s \in NestedNames}
NestedUnits ==
    {Text("x")} \cup
    {Element(HostDiv, NestedFill(s)) : s \in NestedNames} \cup
    {Element(PlainComponent, NestedFill("header"))} \cup
    {Element(createFill(s, 1), c) : s \in NestedNames, c \in NestedContents}

\* One render of one component whose children nest Fill elements.
InitNested ==
    /\ hooks = [s \in Sites |-> Unmounted]
    /\ heap = <<>>
    /\ managers = <<>>
    /\ ctorArgs = <<>>
    /\ nextFill = 0
    /\ \/ props \in NestedUnits
       \/ \E n \in 0..MaxLen : \E items \in [1..n -> NestedUnits] : props = Arr(items, 1)
    /\ calls = [s \in Sites |-> NoCall]
    /\ last = NoLast
    /\ returned = {}

SpecNested == InitNested /\ [][RenderProps]_vars

\* Renders of two components, with children whose identity stays or changes.
NextMemo ==
    \E site \in Sites, children \in MemoInputs : Render(site, children)

SpecMemo == Init /\ [][NextMemo]_vars

\* ------------------------------------------------------------------- claims

\* What the claims call a tagged unit: an element whose type came from createFill.
IsTaggedUnit(u) ==
    u.kind = "element" /\ u.type = createFill(u.type.__SLOT_FILL__, u.type.id)
TaggedWith(u, slotName) == IsTaggedUnit(u) /\ u.type.__SLOT_FILL__ = slotName
Untagged(u) == ~IsTaggedUnit(u)
NestedContent(u) == u.children[1]

Called == last.op = "useSlots"
Items == ChildrenList(last.children)
Result == heap[last.ret]
EmptyRest == Arr(<<>>, 0)

\* Position i holds the first top-level unit tagged slotName.
FirstTagged(i, slotName) ==
    /\ i \in DOMAIN Items
    /\ TaggedWith(Items[i], slotName)
    /\ \A j \in 1..(i - 1) : ~TaggedWith(Items[j], slotName)

\* C1: every SlotMap that useSlots returns has the key rest; rest is the
\* empty sequence when no unit was unmatched, and classifying the empty
\* sequence gives exactly {rest: []}.
C1_RestAlwaysPresent ==
    Called =>
        /\ "rest" \in DOMAIN Result
        /\ (\A i \in DOMAIN Items : IsTaggedUnit(Items[i])) => Result["rest"] = EmptyRest
        /\ Items = <<>> => Result = ("rest" :> EmptyRest)

\* The slot names other than the reserved key rest, whose entry is the
\* bucket of the untagged units whatever is tagged "rest".
OrdinarySlotNames == SlotNames \ {"rest"}

\* C2: for every slot name S, when T is the first top-level unit tagged S
\* and C is its nested content, the returned SlotMap has SlotMap[S] = C.
\* Stated for the slot names other than rest: it fails among these already.
C2_FirstTaggedContent ==
    Called =>
        \A i \in DOMAIN Items : \A s \in OrdinarySlotNames :
            FirstTagged(i, s) => Get(Result, s) = NestedContent(Items[i])

\* The nested content c is in no entry of the SlotMap and no item of rest.
AppearsNowhere(c) ==
    /\ \A k \in DOMAIN Result : Result[k] # c
    /\ "rest" \in DOMAIN Result => \A n \in DOMAIN Result["rest"].children :
            /\ Result["rest"].children[n] # c
            /\ IsTaggedUnit(Result["rest"].children[n]) =>
                    NestedContent(Result["rest"].children[n]) # c

\* C3: first match wins.  When two or more top-level units are tagged S, the
\* entry for S is the nested content of the earliest, and the nested content
\* of every later one (when no earliest unit of a slot carries the same
\* content) appears in no entry and not in rest; also when the earliest
\* unit's content is empty.  Stated for the slot names other than rest: it
\* fails among these already.
C3_FirstMatchWins ==
    Called =>
        \A i \in DOMAIN Items : \A j \in DOMAIN Items : \A s \in OrdinarySlotNames :
            (FirstTagged(i, s) /\ i < j /\ TaggedWith(Items[j], s)) =>
                /\ s \in DOMAIN Result
                /\ Result[s] = NestedContent(Items[i])
                /\ (\A k \in DOMAIN Items : \A t \in SlotNames :
                        FirstTagged(k, t) => NestedContent(Items[k]) # NestedContent(Items[j]))
                    => AppearsNowhere(NestedContent(Items[j]))

\* C4: for children with at least one unit, rest is exactly the subsequence
\* of the untagged top-level units, unchanged and in their input order.
C4_RestIsUntaggedSubsequence ==
    (Called /\ Len(Items) >= 1) =>
        /\ "rest" \in DOMAIN Result
        /\ Result["rest"] = Arr(SelectSeq(Items, Untagged), 0)

C4_Witness ==
    /\ Called
    /\ Items = <<Text("x"), Element(createFill("header", 1), Text("A")), Text("z")>>
    /\ Result["rest"] = Arr(<<Text("x"), Text("z")>>, 0)

\* C9: the SlotMap has an entry for every slot name that tags at least one
\* top-level unit, and no entry other than rest for a slot name that tags none.
C9_EntriesAreFilledSlots ==
    Called =>
        /\ \A s \in SlotNames :
                (\E i \in DOMAIN Items : TaggedWith(Items[i], s)) => s \in DOMAIN Result
        /\ \A k \in DOMAIN Result \ {"rest"} :
                \E i \in DOMAIN Items : TaggedWith(Items[i], k)

\* The message names the slot.
Contains(message, slotName) == \E i \in DOMAIN message : message[i] = slotName

\* The set of names manager m was constructed with.
Permitted(m) == {ctorArgs[m][i] : i \in DOMAIN ctorArgs[m]}

ContextUnits ==
    {Text("x"), Element(createFill("header", 0), Text("B")),
     Element(createFill("footer", 0), Text("B"))}
Contexts == {<<>>} \cup {<<u>> : u \in ContextUnits}

\* Elements of the Fill components f and g classify alike, whatever their
\* nested content and whatever stands before and after them.
ClassifyAlike(f, g) ==
    \A c \in Contents : \A before \in Contexts : \A after \in Contexts :
        Classify(Arr(before \o <<Element(f, c)>> \o after, 1))
            = Classify(Arr(before \o <<Element(g, c)>> \o after, 1))

\* C5: createFill(x) on a SlotManager built from the names P throws at the
\* call, with a message that contains x and without producing a Fill, when
\* x is not in P; when x is in P it returns a Fill whose marker is x and
\* which classifies like the Fill of the plain createFill(x).
C5_CreateFillValidates ==
    last.op = "createFill" =>
        IF last.slotName \notin Permitted(last.manager)
        THEN /\ last.threw
             /\ Contains(last.message, last.slotName)
             /\ last.fill = NoType
        ELSE /\ ~last.threw
             /\ last.fill.typeof = "function"
             /\ last.fill.hasMarker
             /\ last.fill.__SLOT_FILL__ = last.slotName
             /\ ClassifyAlike(last.fill, createFill(last.slotName, 0))

C5_Witness ==
    /\ last.op = "createFill"
    /\ last.threw
    /\ last.slotName = "body"
    /\ nextFill >= 1

\* C6: SlotManager.useSlots(children) returns the SlotMap the standalone
\* useSlots(children) returns: entries of slots outside the manager's
\* permitted set are neither removed nor moved to rest.
C6_ManagerUseSlotsIsUseSlots ==
    (Called /\ last.manager # 0) => Result = Classify(last.children)

C6_Witness ==
    /\ Called
    /\ last.manager # 0
    /\ "body" \in DOMAIN Result
    /\ "body" \notin managers[last.manager].slots
    /\ Result["body"] = Text("A")

\* C7: whatever calls were made before, at this call site and at others,
\* with inputs of the same or of a different identity, the SlotMap a call
\* returns is the classification of that call's own input.
C7_CacheServesOwnInput ==
    Called => Result = Classify(last.children)

C7_Witness ==
    /\ Called
    /\ last.prev.called
    /\ last.prev.children = last.children
    /\ last.children.kind = "array"
    /\ \E s \in Sites \ {last.site} :
            /\ calls[s].called
            /\ calls[s].children # last.children
            /\ heap[calls[s].ret] # Result

\* C8 as claimed: no two useSlots calls return the same SlotMap object.
C8_AlwaysFresh ==
    Called => last.ret \notin returned

\* C8: a useSlots call returns a newly created SlotMap object, unless its
\* input is identical to the input of the previous call at the same call
\* site: then it returns the object that call returned.  Calls at different
\* call sites never return the same object.
C8_FreshUnlessSameInput ==
    Called =>
        /\ IF last.prev.called /\ ObjectIs(last.prev.children, last.children)
           THEN last.ret = last.prev.ret
           ELSE last.ret \notin returned
        /\ \A s \in Sites \ {last.site} : calls[s].called => calls[s].ret # last.ret

C8_Witness ==
    /\ Called
    /\ last.prev.called
    /\ last.prev.children = last.children
    /\ last.ret = last.prev.ret
    /\ last.ret \in returned
    /\ \E s \in Sites \ {last.site} : calls[s].called /\ calls[s].children = last.children

\* C10: the permitted set of every SlotManager is the set of the names given
\* to its constructor, duplicates collapsed, whatever createFill and
\* useSlots calls were made on it or on another instance since.
C10_PermittedSetFixed ==
    /\ Len(managers) = Len(ctorArgs)
    /\ \A m \in DOMAIN managers : managers[m].slots = Permitted(m)

C10_Witness ==
    /\ Len(managers) = 2
    /\ ctorArgs[1] = <<"header", "footer", "header">>
    /\ managers[1].slots = {"header", "footer"}
    /\ managers[2].slots = {"footer"}
    /\ last.op = "createFill"
    /\ last.manager = 2
    /\ last.slotName = "header"
    /\ last.threw
    /\ nextFill >= 1
    /\ Len(heap) >= 1

\* The children of the last call with their units replaced by q.
WithItems(q) == IF last.children.kind = "array" THEN Arr(q, last.children.ref) ELSE q[1]

\* The unit u as the other Fill component of the same slot name produces it.
ByOtherTagger(u) ==
    Element(createFill(u.type.__SLOT_FILL__, 3 - u.type.id), NestedContent(u))

\* The sequence q without its element j.
Without(q, j) == SubSeq(q, 1, j - 1) \o SubSeq(q, j + 1, Len(q))

\* C11: Fill components made by separate createFill calls for one slot name
\* are interchangeable.  Replacing a unit by the unit of the same content
\* that the other component produces leaves the SlotMap equal; and a unit
\* that follows a unit of the other component competes with it for the one
\* entry and loses: it has no effect on the SlotMap and its content is not
\* the entry.
C11_TaggersInterchangeable ==
    Called =>
        \A i \in DOMAIN Items : IsTaggedUnit(Items[i]) =>
            /\ Classify(WithItems([Items EXCEPT ![i] = ByOtherTagger(Items[i])])) = Result
            /\ \A j \in DOMAIN Items : \A s \in TaggerNames :
                    (/\ FirstTagged(i, s)
                     /\ i < j
                     /\ TaggedWith(Items[j], s)
                     /\ Items[j].type.id # Items[i].type.id) =>
                        /\ Result = Classify(WithItems(Without(Items, j)))
                        /\ NestedContent(Items[j]) # NestedContent(Items[i]) =>
                                Get(Result, s) # NestedContent(Items[j])

C11_Witness ==
    /\ Called
    /\ Items = <<Element(createFill("header", 1), Text("A")),
                 Element(createFill("header", 2), Text("B"))>>
    /\ Result["header"] = Text("A")
    /\ Result["rest"] = EmptyRest

\* The tagged units inside the nested content of the unit u.
NestedTagged(u) ==
    IF u.kind # "element" THEN {}
    ELSE LET inside == ChildrenList(NestedContent(u))
         IN  {inside[n] : n \in {k \in DOMAIN inside : IsTaggedUnit(inside[k])}}

RestItems == IF "rest" \in DOMAIN Result THEN Result["rest"].children ELSE <<>>

\* C12: only the top-level units are classified.  A tagged unit inside the
\* nested content of a unit creates no entry for its slot name, does not
\* block a top-level unit of that slot name, is no item of rest, and stays
\* unmodified inside its container: in rest when the container is untagged,
\* in the container's entry when the container is the first unit of its slot.
C12_TopLevelOnly ==
    Called =>
        \A i \in DOMAIN Items : \A n \in NestedTagged(Items[i]) :
            LET s == n.type.__SLOT_FILL__
            IN  /\ (\A k \in DOMAIN Items : ~TaggedWith(Items[k], s)) => s \notin DOMAIN Result
                /\ \A k \in DOMAIN Items : FirstTagged(k, s) =>
                        s \in DOMAIN Result /\ Result[s] = NestedContent(Items[k])
                /\ \A r \in DOMAIN RestItems : RestItems[r] # n
                /\ Untagged(Items[i]) =>
                        \E r \in DOMAIN RestItems : RestItems[r] = Items[i]
                /\ \A t \in NestedNames : FirstTagged(i, t) =>
                        /\ Result[t] = NestedContent(Items[i])
                        /\ n \in NestedTagged(Element(createFill(t, 1), Result[t]))

C12_Witness ==
    /\ Called
    /\ Items = <<Element(HostDiv, NestedFill("header")),
                 Element(createFill("footer", 1), NestedFill("header")),
                 Element(createFill("header", 1), Text("A"))>>
    /\ Result["header"] = Text("A")
    /\ Result["footer"] = NestedFill("header")
    /\ Result["rest"] = Arr(<<Element(HostDiv, NestedFill("header"))>>, 0)

\* C13: a unit tagged "rest" cannot take over the reserved key.  For nonempty
\* children with a top-level unit whose slot name is "rest", the rest entry
\* is the ordered bucket of the untagged units, and the nested content of
\* that unit (when no first unit of another slot carries the same content)
\* is no entry of the SlotMap and no item of rest.
C13_RestNotTakenOver ==
    (Called /\ Len(Items) >= 1) =>
        \A i \in DOMAIN Items : TaggedWith(Items[i], "rest") =>
            /\ "rest" \in DOMAIN Result
            /\ Result["rest"] = Arr(SelectSeq(Items, Untagged), 0)
            /\ (\A k \in DOMAIN Items : \A t \in OrdinarySlotNames :
                    FirstTagged(k, t) => NestedContent(Items[k]) # NestedContent(Items[i]))
                => AppearsNowhere(NestedContent(Items[i]))

C13_Witness ==
    /\ Called
    /\ Items = <<Text("x"), Element(createFill("rest", 1), Text("A")), Text("z")>>
    /\ Result = ("rest" :> Arr(<<Text("x"), Text("z")>>, 0))

====
